---- MODULE Spec2Model ----
(***************************************************************************)
(* Clock face widget of examples/Face.py and the hand of examples/Hand.py. *)
(*                                                                         *)
(* One FaceClass instance (Face.cls) is created when the module is loaded; *)
(* every Face widget is an LVGL object created from it.  The host (LVGL)   *)
(* calls FaceClass.constructor once per widget and FaceClass.event_cb for  *)
(* every event of a widget.  The wall clock (time.localtime) and the       *)
(* millisecond tick counter (time.ticks_ms) belong to the environment.     *)
(*                                                                         *)
(* Angles are kept exactly, as integers in units of 1/AU degree.  sin and  *)
(* cos are the double precision values at whole degrees, cut to six        *)
(* decimals, with linear interpolation between whole degrees: int(sin*r)   *)
(* agrees with the float computation at every whole degree for the radii   *)
(* used here and is within one pixel elsewhere.                            *)
(***************************************************************************)
EXTENDS Integers, Sequences, FiniteSets, TLC

(* ---------------------------------------------------------------- bounds *)

\* Last value of the environment's millisecond clock (time since start-up).
MaxClock == 1200

\* Number of widget positions the host layout may choose from.
MaxPos == 2

(* ------------------------------------------------ environment parameters *)

Objs == {"A", "B"}

\* Milliseconds that may pass between two steps of the host.
Deltas == {600, 1000}

\* Positions (obj.get_x(), obj.get_y()) the host layout may give a widget.
Positions == {[x |-> 80 * (i - 1), y |-> 40 * (i - 1)] : i \in 1..MaxPos}

OK == "OK"
INV == "INV"
Results == {OK, INV}

\* The list of event_cb without its last entry.
InvalidatingCodesShort ==
    {"STYLE_CHANGED", "VALUE_CHANGED", "PRESSING", "RELEASED"}

\* The codes for which event_cb sets obj.valid = False.
InvalidatingCodes ==
    {"STYLE_CHANGED", "VALUE_CHANGED", "PRESSING", "RELEASED", "LAYOUT_CHANGED"}

\* The event codes the host delivers in this model.
EventCodes ==
    {"DRAW_MAIN", "DRAW_POST", "REFRESH", "SIZE_CHANGED",
     "STYLE_CHANGED", "VALUE_CHANGED", "PRESSING", "RELEASED", "LAYOUT_CHANGED"}

\* time.ticks_ms() wraps at this period (2^30).
TICKS_PERIOD == 2^30

\* The tick counter's value at start-up: the counter wraps 500 ms later.
BootTicks == TICKS_PERIOD - 500

MsPerDay == 24 * 3600 * 1000

\* Wall clock (milliseconds of the day) at start-up.
RtcBases ==
    {  3 * 3600000,
      12 * 3600000,
      10 * 3600000 + 30 * 60000 + 24900 }

(* ------------------------------------------------------------------ trig *)

\* Units of angle per degree.
AU == 120000

TrigScale == 1000000

SinTable ==
    <<
       0, 17452, 34899, 52335, 69756, 87155, 104528, 121869, 139173, 156434,
       173648, 190808, 207911, 224951, 241921, 258819, 275637, 292371, 309016, 325568,
       342020, 358367, 374606, 390731, 406736, 422618, 438371, 453990, 469471, 484809,
       499999, 515038, 529919, 544639, 559192, 573576, 587785, 601815, 615661, 629320,
       642787, 656059, 669130, 681998, 694658, 707106, 719339, 731353, 743144, 754709,
       766044, 777145, 788010, 798635, 809016, 819152, 829037, 838670, 848048, 857167,
       866025, 874619, 882947, 891006, 898794, 906307, 913545, 920504, 927183, 933580,
       939692, 945518, 951056, 956304, 961261, 965925, 970295, 974370, 978147, 981627,
       984807, 987688, 990268, 992546, 994521, 996194, 997564, 998629, 999390, 999847,
       1000000, 999847, 999390, 998629, 997564, 996194, 994521, 992546, 990268, 987688,
       984807, 981627, 978147, 974370, 970295, 965925, 961261, 956304, 951056, 945518,
       939692, 933580, 927183, 920504, 913545, 906307, 898794, 891006, 882947, 874619,
       866025, 857167, 848048, 838670, 829037, 819152, 809016, 798635, 788010, 777145,
       766044, 754709, 743144, 731353, 719339, 707106, 694658, 681998, 669130, 656059,
       642787, 629320, 615661, 601815, 587785, 573576, 559192, 544639, 529919, 515038,
       499999, 484809, 469471, 453990, 438371, 422618, 406736, 390731, 374606, 358367,
       342020, 325568, 309016, 292371, 275637, 258819, 241921, 224951, 207911, 190808,
       173648, 156434, 139173, 121869, 104528, 87155, 69756, 52335, 34899, 17452,
       0, -17452, -34899, -52335, -69756, -87155, -104528, -121869, -139173, -156434,
       -173648, -190808, -207911, -224951, -241921, -258819, -275637, -292371, -309016, -325568,
       -342020, -358367, -374606, -390731, -406736, -422618, -438371, -453990, -469471, -484809,
       -500000, -515038, -529919, -544639, -559192, -573576, -587785, -601815, -615661, -629320,
       -642787, -656059, -669130, -681998, -694658, -707106, -719339, -731353, -743144, -754709,
       -766044, -777145, -788010, -798635, -809016, -819152, -829037, -838670, -848048, -857167,
       -866025, -874619, -882947, -891006, -898794, -906307, -913545, -920504, -927183, -933580,
       -939692, -945518, -951056, -956304, -961261, -965925, -970295, -974370, -978147, -981627,
       -984807, -987688, -990268, -992546, -994521, -996194, -997564, -998629, -999390, -999847,
       -1000000, -999847, -999390, -998629, -997564, -996194, -994521, -992546, -990268, -987688,
       -984807, -981627, -978147, -974370, -970295, -965925, -961261, -956304, -951056, -945518,
       -939692, -933580, -927183, -920504, -913545, -906307, -898794, -891006, -882947, -874619,
       -866025, -857167, -848048, -838670, -829037, -819152, -809016, -798635, -788010, -777145,
       -766044, -754709, -743144, -731353, -719339, -707106, -694658, -681998, -669130, -656059,
       -642787, -629320, -615661, -601815, -587785, -573576, -559192, -544639, -529919, -515038,
       -500000, -484809, -469471, -453990, -438371, -422618, -406736, -390731, -374606, -358367,
       -342020, -325568, -309016, -292371, -275637, -258819, -241921, -224951, -207911, -190808,
       -173648, -156434, -139173, -121869, -104528, -87155, -69756, -52335, -34899, -17452,
       0
    >>

CosTable ==
    <<
       1000000, 999847, 999390, 998629, 997564, 996194, 994521, 992546, 990268, 987688,
       984807, 981627, 978147, 974370, 970295, 965925, 961261, 956304, 951056, 945518,
       939692, 933580, 927183, 920504, 913545, 906307, 898794, 891006, 882947, 874619,
       866025, 857167, 848048, 838670, 829037, 819152, 809016, 798635, 788010, 777145,
       766044, 754709, 743144, 731353, 719339, 707106, 694658, 681998, 669130, 656059,
       642787, 629320, 615661, 601815, 587785, 573576, 559192, 544639, 529919, 515038,
       500000, 484809, 469471, 453990, 438371, 422618, 406736, 390731, 374606, 358367,
       342020, 325568, 309016, 292371, 275637, 258819, 241921, 224951, 207911, 190808,
       173648, 156434, 139173, 121869, 104528, 87155, 69756, 52335, 34899, 17452,
       0, -17452, -34899, -52335, -69756, -87155, -104528, -121869, -139173, -156434,
       -173648, -190808, -207911, -224951, -241921, -258819, -275637, -292371, -309016, -325568,
       -342020, -358367, -374606, -390731, -406736, -422618, -438371, -453990, -469471, -484809,
       -499999, -515038, -529919, -544639, -559192, -573576, -587785, -601815, -615661, -629320,
       -642787, -656059, -669130, -681998, -694658, -707106, -719339, -731353, -743144, -754709,
       -766044, -777145, -788010, -798635, -809016, -819152, -829037, -838670, -848048, -857167,
       -866025, -874619, -882947, -891006, -898794, -906307, -913545, -920504, -927183, -933580,
       -939692, -945518, -951056, -956304, -961261, -965925, -970295, -974370, -978147, -981627,
       -984807, -987688, -990268, -992546, -994521, -996194, -997564, -998629, -999390, -999847,
       -1000000, -999847, -999390, -998629, -997564, -996194, -994521, -992546, -990268, -987688,
       -984807, -981627, -978147, -974370, -970295, -965925, -961261, -956304, -951056, -945518,
       -939692, -933580, -927183, -920504, -913545, -906307, -898794, -891006, -882947, -874619,
       -866025, -857167, -848048, -838670, -829037, -819152, -809016, -798635, -788010, -777145,
       -766044, -754709, -743144, -731353, -719339, -707106, -694658, -681998, -669130, -656059,
       -642787, -629320, -615661, -601815, -587785, -573576, -559192, -544639, -529919, -515038,
       -500000, -484809, -469471, -453990, -438371, -422618, -406736, -390731, -374606, -358367,
       -342020, -325568, -309016, -292371, -275637, -258819, -241921, -224951, -207911, -190808,
       -173648, -156434, -139173, -121869, -104528, -87155, -69756, -52335, -34899, -17452,
       0, 17452, 34899, 52335, 69756, 87155, 104528, 121869, 139173, 156434,
       173648, 190808, 207911, 224951, 241921, 258819, 275637, 292371, 309016, 325568,
       342020, 358367, 374606, 390731, 406736, 422618, 438371, 453990, 469471, 484809,
       500000, 515038, 529919, 544639, 559192, 573576, 587785, 601815, 615661, 629320,
       642787, 656059, 669130, 681998, 694658, 707106, 719339, 731353, 743144, 754709,
       766044, 777145, 788010, 798635, 809016, 819152, 829037, 838670, 848048, 857167,
       866025, 874619, 882947, 891006, 898794, 906307, 913545, 920504, 927183, 933580,
       939692, 945518, 951056, 956304, 961261, 965925, 970295, 974370, 978147, 981627,
       984807, 987688, 990268, 992546, 994521, 996194, 997564, 998629, 999390, 999847,
       1000000
    >>

\* Linear interpolation in a table of whole degrees, a in units of 1/AU degree.
Interp(T, a) ==
    LET m == a % (360 * AU)
        d == m \div AU
        r == m % AU
    IN  IF r = 0 THEN T[d + 1]
        ELSE T[d + 1] + (((T[d + 2] - T[d + 1]) * (r \div 10)) \div (AU \div 10))

\* math.sin(math.radians(a)) and math.cos(math.radians(a)), times TrigScale.
Sin(a) == Interp(SinTable, a)

Cos(a) == Interp(CosTable, a)

\* int(v / d): Python's int() cuts toward zero.
Trunc(v, d) == IF v >= 0 THEN v \div d ELSE -((-v) \div d)

\* int(math.sin(math.radians(a)) * r)
IntSin(a, r) == Trunc(Sin(a) * r, TrigScale)

\* int(math.cos(math.radians(a)) * r)
IntCos(a, r) == Trunc(Cos(a) * r, TrigScale)

Deg(d) == d * AU

Pt(px, py) == [x |-> px, y |-> py]

(* ------------------------------------------------------------------ Hand *)

\* Hand.__init__
NewHand(main_rad, main_tail_rad, flag_rad, flag_end_rad) ==
    [ main_tail_rad |-> main_tail_rad,
      spindle_rad   |-> 5,
      flag_rad      |-> flag_rad,
      flag_end_rad  |-> flag_end_rad,
      main_rad      |-> main_rad,
      spindle       |-> Pt(0, 0),
      main          |-> <<Pt(0, 0), Pt(0, 0)>>,
      flag          |-> <<Pt(0, 0), Pt(0, 0)>> ]

\* Hand.rotate: by is the rotation in units of 1/AU degree.
HandRotate(h, by) ==
    LET main0 == Pt(h.spindle.x - IntSin(by, h.main_tail_rad),
                    h.spindle.y - IntCos(by, h.main_tail_rad))
        main1 == Pt(h.spindle.x + IntSin(by, h.main_rad),
                    h.spindle.y + IntCos(by, h.main_rad))
        flag0 == Pt(h.spindle.x + IntSin(by, h.flag_rad),
                    h.spindle.y + IntCos(by, h.flag_rad))
        flag1 == Pt(h.spindle.x + IntSin(by, h.flag_end_rad),
                    h.spindle.y + IntCos(by, h.flag_end_rad))
    IN  [h EXCEPT !.main = <<main0, main1>>,
                  !.flag = IF h.flag_rad # 0 THEN <<flag0, flag1>> ELSE @]

\* The lines Hand.draw hands to draw_ctx.line after rotating.
HandLines(h) ==
    <<[p1 |-> h.main[1], p2 |-> h.main[2], width |-> 4]>> \o
    (IF h.flag_rad # 0
        THEN <<[p1 |-> h.flag[1], p2 |-> h.flag[2], width |-> 12]>>
        ELSE <<>>)

\* Hand.set_coords
HandSetCoords(h, px, py) == [h EXCEPT !.spindle = Pt(px, py)]

(* ------------------------------------------------------------- FaceClass *)

\* FaceClass.__init__(height=320, width=320): lv_cls.width_def, height_def
width_def == 320

height_def == 320

sub_card_rad == width_def \div 2

cardinal_rad == (width_def \div 2) - 5

sub_card_len == 4

cardinal_len == 12

\* card_font is a font in both builds (never None): the cardinals are labels.
card_font_is_none == FALSE

CARDINALS == 4

HOURS == 12

\* The label texts of init_cardinal_labels, in the order they are created.
cardinals == <<"6", "3", "12", "9">>

VARIABLES
    in_sim,      \* display_driver could be imported (the simulator build)
    widgets,     \* environment: the widgets the program creates
    horizon,     \* environment: the last clock value of the run
    clock,       \* environment: milliseconds since start-up
    rtc_base,    \* environment: wall clock (ms of the day) at start-up
    cls,         \* Face.cls, the one FaceClass instance and its fields
    obj,         \* the widgets: obj[w].valid and the position the host gave w
    lines,       \* the lines given to draw_ctx.line by the last handler
    ev,          \* the last step: its kind, event code, target and result
    recomputes,  \* history: the runs of set_coords so far, counted up to 2
    calcs,       \* history: calc runs for w since w was last invalidated
    sampled      \* history: the clock when the tick counter was last read

vars == <<in_sim, widgets, horizon, clock, rtc_base, cls, obj, lines, ev, recomputes, calcs, sampled>>

(* ----------------------------------------------------------- environment *)

\* time.ticks_ms() when the clock shows c
TicksAt(c) == (BootTicks + c) % TICKS_PERIOD

\* time.ticks_diff(a, b): the signed difference of two tick values
ticks_diff(a, b) ==
    ((a - b + (TICKS_PERIOD \div 2)) % TICKS_PERIOD) - (TICKS_PERIOD \div 2)

\* time.ticks_add(t, delta)
ticks_add(t, delta) == (t + delta) % TICKS_PERIOD

\* time.localtime() when the clock shows c: the wall clock advances one
\* second per 1000 ms of the tick counter.
LocalTimeAt(base, c) ==
    LET ms == (base + c) % MsPerDay
    IN  <<2022, 5, 26, ms \div 3600000, (ms \div 60000) % 60,
          (ms \div 1000) % 60, 3, 146>>

DayNames == <<"Mon", "Tue", "Wed", "Thu", "Fri", "Sat", "Sun">>

MonthNames ==
    <<"Jan", "Feb", "Mar", "Apr", "May", "Jun",
      "Jul", "Aug", "Sep", "Oct", "Nov", "Dec">>

(* ------------------------------------------------------------ operations *)

\* FaceClass.__init__: the fields behind the geometry and the time sample.
FaceClassInit(ticks) ==
    [ card_points     |-> <<>>,
      sub_card_points |-> <<>>,
      cardinal_labels |-> <<>>,
      date            |-> [parent |-> "none", text |-> <<>>],
      localtime       |-> <<1970, 1, 1, 22, 9, 26, 1, 1>>,
      lastsync        |-> ticks,
      FRACTIONALTIMEZERO |-> ticks_diff(ticks, ticks),
      fractionaltime  |-> ticks_diff(ticks, ticks),
      hour   |-> [NewHand(90, 15, 25, 90) EXCEPT !.spindle_rad = 8],
      minute |-> NewHand(125, 15, 25, 125),
      second |-> NewHand(155, 15, 0, 0) ]

\* A tick-mark segment of set_coords: from radius rad to rad - len along the
\* ray at rotation degrees around (x, y).
TickSegment(x, y, rotation, rad, len) ==
    << Pt(x + IntSin(Deg(rotation), rad), y + IntCos(Deg(rotation), rad)),
       Pt(x + IntSin(Deg(rotation), rad - len),
          y + IntCos(Deg(rotation), rad - len)) >>

\* set_coords without the clear(): the loop appends to the old list.
KeptPoints(points) == points

\* list.clear() of set_coords: the list the loop appends to
ClearedPoints(points) == <<>>

\* for i in range(FaceClass.CARDINALS): append, then rotation += 90
RECURSIVE CardinalLoop(_, _, _, _, _)
CardinalLoop(i, rotation, x, y, points) ==
    IF i >= CARDINALS THEN points
    ELSE CardinalLoop(i + 1, rotation + 90, x, y,
            Append(points, TickSegment(x, y, rotation, cardinal_rad, cardinal_len)))

\* for i in range(FaceClass.HOURS): rotation += 30, skip i % 3 == 2, append
RECURSIVE SubCardinalLoop(_, _, _, _, _)
SubCardinalLoop(i, rotation, x, y, points) ==
    IF i >= HOURS THEN points
    ELSE LET r == rotation + 30
         IN  IF i % 3 = 2 THEN SubCardinalLoop(i + 1, r, x, y, points)
             ELSE SubCardinalLoop(i + 1, r, x, y,
                    Append(points, TickSegment(x, y, r, sub_card_rad, sub_card_len)))

\* for line, label in zip(card_points, cardinal_labels): label.align(...)
AlignLabels(labels, points, centre_x, centre_y) ==
    [k \in 1..Len(labels) |->
        IF k <= Len(points)
            THEN [labels[k] EXCEPT !.x = points[k][2].x - centre_x,
                                   !.y = points[k][2].y - centre_y]
            ELSE labels[k]]

\* The body of FaceClass.set_coords, (ox, oy) being what obj.get_x() and
\* obj.get_y() return.  m is the handler's context: the FaceClass fields
\* (m.cls), the target widget (m.obj), the lines drawn so far and the reads
\* of the environment (m.ticks, m.wall).
SetCoordsAt(m, ox, oy) ==
    LET x  == ox + (width_def \div 2)
        y  == oy + (height_def \div 2)
        cp == CardinalLoop(0, 0, x, y, ClearedPoints(m.cls.card_points))
        sp == SubCardinalLoop(0, 0, x, y, ClearedPoints(m.cls.sub_card_points))
    IN  [m EXCEPT
            !.cls.card_points = cp,
            !.cls.sub_card_points = sp,
            !.cls.hour = HandSetCoords(@, x, y),
            !.cls.minute = HandSetCoords(@, x, y),
            !.cls.second = HandSetCoords(@, x, y),
            !.cls.cardinal_labels =
                IF ~card_font_is_none THEN AlignLabels(@, cp, x, y) ELSE @,
            !.ncalc = @ + 1]

\* set_coords around the class's default centre, obj.get_x/get_y left out.
set_coords_origin(m) == SetCoordsAt(m, 0, 0)

\* FaceClass.set_coords
set_coords(m) == SetCoordsAt(m, m.obj.x, m.obj.y)

\* FaceClass.calc
calc(m) == [set_coords(m) EXCEPT !.obj.valid = TRUE]

\* The lines FaceClass.draw gives to draw_ctx.line.
FaceLines(c) ==
    [k \in 1..Len(c.sub_card_points) |->
        [p1 |-> c.sub_card_points[k][1], p2 |-> c.sub_card_points[k][2],
         width |-> 10]] \o
    (IF card_font_is_none
        THEN [k \in 1..Len(c.card_points) |->
                [p1 |-> c.card_points[k][1], p2 |-> c.card_points[k][2],
                 width |-> 10]]
        ELSE <<>>)

\* draw without the validity test: calc on every call.
draw_always_calc(m) ==
    LET m1 == calc(m)
    IN  [m1 EXCEPT !.lines = @ \o FaceLines(m1.cls), !.ndraw = @ + 1]

\* FaceClass.draw
draw(m) ==
    LET m1 == IF ~m.obj.valid THEN calc(m) ELSE m
    IN  [m1 EXCEPT !.lines = @ \o FaceLines(m1.cls), !.ndraw = @ + 1]

\* synchronise without the update of lastsync.
synchronise_stale(m) ==
    LET lastsec   == m.cls.localtime[6]
        localtime == m.wall
        fraction  == m.ticks
    IN  [m EXCEPT
            !.cls.localtime = localtime,
            !.cls.fractionaltime =
                IF lastsec # localtime[6]
                    THEN m.cls.FRACTIONALTIMEZERO
                    ELSE ticks_add(@, ticks_diff(fraction, m.cls.lastsync)),
            !.nsync = @ + 1]

\* FaceClass.synchronise
synchronise(m) ==
    LET lastsec   == m.cls.localtime[6]
        localtime == m.wall
        fraction  == m.ticks
        date_str  == << DayNames[((localtime[7] + 1) % 7) + 1], localtime[3],
                        MonthNames[localtime[2]] >>
    IN  [m EXCEPT
            !.cls.localtime = localtime,
            !.cls.fractionaltime =
                IF lastsec # localtime[6]
                    THEN m.cls.FRACTIONALTIMEZERO
                    ELSE ticks_add(@, ticks_diff(fraction, m.cls.lastsync)),
            !.cls.lastsync = fraction,
            !.cls.date.text = date_str,
            !.nsync = @ + 1]

\* The rotations of draw_hands, in units of 1/AU degree:
\*   sec_rot = localtime[5] * 6 + 6 * (fractionaltime / 1000)
\*   min_rot = localtime[4] * 6 + sec_rot / 60
\*   hr_rot  = (localtime[3] * 30) % 360 + min_rot / 12
sec_rot(c) == 720 * (1000 * c.localtime[6] + c.fractionaltime)

min_rot(c) == (720000 * c.localtime[5]) + (sec_rot(c) \div 60)

hr_rot(c) == (((c.localtime[4] * 30) % 360) * AU) + (min_rot(c) \div 12)

\* FaceClass.draw_hands
draw_hands(m) ==
    LET m1 == IF ~in_sim THEN synchronise(m) ELSE m
        c  == m1.cls
        h  == HandRotate(c.hour, Deg(360) - hr_rot(c))
        mi == HandRotate(c.minute, Deg(360) - min_rot(c))
        s  == HandRotate(c.second, Deg(360) - sec_rot(c))
    IN  [m1 EXCEPT !.cls.hour = h, !.cls.minute = mi, !.cls.second = s,
                   !.lines = @ \o HandLines(h) \o HandLines(mi) \o HandLines(s)]

\* obj.invalidate(): asks the host to redraw the widget's area; it changes
\* no field of the widget or of FaceClass.
obj_invalidate(m) == m

\* event_cb with the DRAW_POST branch repeated the way DRAW_MAIN's is.
event_cb_post_twice(m, code, res) ==
    IF res # OK THEN m
    ELSE LET m1 == IF code = "DRAW_MAIN" THEN draw(m)
                   ELSE IF code = "DRAW_POST" THEN draw_hands(m)
                   ELSE m
         IN  IF code = "DRAW_MAIN" THEN draw(m1)
             ELSE IF code = "DRAW_POST" THEN draw_hands(m1)
             ELSE IF code \in InvalidatingCodes
                 THEN [m1 EXCEPT !.obj.valid = FALSE]
             ELSE m1

\* event_cb without the test of the ancestor's result.
event_cb_any_result(m, code, res) ==
    LET m1 == IF code = "DRAW_MAIN" THEN draw(m)
              ELSE IF code = "DRAW_POST" THEN draw_hands(m)
              ELSE m
    IN  IF code = "DRAW_MAIN" THEN draw(m1)
        ELSE IF code \in InvalidatingCodes
            THEN [m1 EXCEPT !.obj.valid = FALSE]
        ELSE IF code = "REFRESH" THEN obj_invalidate(m1)
        ELSE m1

\* FaceClass.event_cb, res being the result of the ancestor's handler
event_cb(m, code, res) ==
    IF res # OK THEN m
    ELSE LET m1 == IF code = "DRAW_MAIN" THEN draw(m)
                   ELSE IF code = "DRAW_POST" THEN draw_hands(m)
                   ELSE m
         IN  IF code = "DRAW_MAIN" THEN draw(m1)
             ELSE IF code \in InvalidatingCodes
                 THEN [m1 EXCEPT !.obj.valid = FALSE]
             ELSE IF code = "REFRESH" THEN obj_invalidate(m1)
             ELSE m1

\* FaceClass.constructor and init_cardinal_labels for widget w
constructor(c, w) ==
    [c EXCEPT
        !.date = [parent |-> w, text |-> <<"Thu", 26, "May">>],
        !.cardinal_labels =
            IF ~card_font_is_none
                THEN @ \o [k \in 1..Len(cardinals) |->
                            [text |-> cardinals[k], parent |-> w, x |-> 0, y |-> 0]]
                ELSE @]

(* ---------------------------------------------------------------- system *)

NoObj == [created |-> FALSE, valid |-> FALSE, x |-> 0, y |-> 0]

Step(kind, code, target, res, m) ==
    [kind |-> kind, code |-> code, target |-> target, res |-> res,
     ncalc |-> m.ncalc, nsync |-> m.nsync, ndraw |-> m.ndraw]

Idle == [ncalc |-> 0, nsync |-> 0, ndraw |-> 0]

\* The handler's context for widget w at the present time.
Context(w) ==
    [cls |-> cls, obj |-> obj[w], lines |-> <<>>,
     ncalc |-> 0, nsync |-> 0, ndraw |-> 0,
     ticks |-> TicksAt(clock), wall |-> LocalTimeAt(rtc_base, clock)]

Min(a, b) == IF a < b THEN a ELSE b

\* Module load: Face.cls = FaceClass(), no widget yet.
Start(ws, bases, last) ==
    /\ in_sim \in BOOLEAN
    /\ widgets = ws
    /\ horizon = last
    /\ clock = 0
    /\ rtc_base \in bases
    /\ cls = FaceClassInit(TicksAt(0))
    /\ obj = [w \in Objs |-> NoObj]
    /\ lines = <<>>
    /\ ev = Step("init", "NONE", "none", OK, Idle)
    /\ recomputes = 0
    /\ calcs = [w \in Objs |-> 0]
    /\ sampled = 0

\* The program of Face.py: one widget, face = Face(scr).
Init == Start({"A"}, RtcBases, MaxClock)

\* A program that creates a second Face on the same screen.
InitTwo == Start(Objs, {3 * 3600000}, 600)

\* Face(parent): the host creates the object and calls the constructor.
Construct(w) ==
    /\ ~obj[w].created
    /\ obj' = [obj EXCEPT ![w] = [created |-> TRUE, valid |-> FALSE, x |-> 0, y |-> 0]]
    /\ cls' = constructor(cls, w)
    /\ lines' = <<>>
    /\ ev' = Step("construct", "NONE", w, OK, Idle)
    /\ calcs' = [calcs EXCEPT ![w] = 0]
    /\ UNCHANGED <<in_sim, widgets, horizon, clock, rtc_base, recomputes, sampled>>

\* The host delivers an event to widget w.
Event(w, code, res) ==
    /\ obj[w].created
    /\ LET m == event_cb(Context(w), code, res)
       IN  /\ cls' = m.cls
           /\ obj' = [obj EXCEPT ![w] = m.obj]
           /\ lines' = m.lines
           /\ ev' = Step("event", code, w, res, m)
           /\ recomputes' = Min(recomputes + m.ncalc, 2)
           /\ calcs' = [calcs EXCEPT ![w] =
                           IF res = OK /\ code \in InvalidatingCodes THEN 0
                           ELSE Min(@ + m.ncalc, 3)]
           /\ sampled' = IF m.nsync > 0 THEN clock ELSE sampled
    /\ UNCHANGED <<in_sim, widgets, horizon, clock, rtc_base>>

\* Time passes.
Tick(d) ==
    /\ clock + d <= horizon
    /\ clock' = clock + d
    /\ ev' = Step("tick", "NONE", "none", OK, Idle)
    /\ lines' = <<>>
    /\ UNCHANGED <<in_sim, widgets, horizon, rtc_base, cls, obj, recomputes, calcs, sampled>>

\* The host layout moves widget w (face.align): no event reaches the widget.
Move(w, p) ==
    /\ obj[w].created
    /\ p # Pt(obj[w].x, obj[w].y)
    /\ obj' = [obj EXCEPT ![w].x = p.x, ![w].y = p.y]
    /\ ev' = Step("move", "NONE", w, OK, Idle)
    /\ lines' = <<>>
    /\ UNCHANGED <<in_sim, widgets, horizon, clock, rtc_base, cls, recomputes, calcs, sampled>>

Next ==
    \/ \E w \in widgets : Construct(w)
    \/ \E w \in widgets, code \in EventCodes, res \in Results : Event(w, code, res)
    \/ \E d \in Deltas : Tick(d)
    \/ \E w \in widgets, p \in Positions : Move(w, p)

Spec == Init /\ [][Next]_vars

\* The same host, delivering only accepted draw and layout events.
NextTwo ==
    \/ \E w \in widgets : Construct(w)
    \/ \E w \in widgets, code \in {"DRAW_MAIN", "DRAW_POST", "LAYOUT_CHANGED"} :
            Event(w, code, OK)
    \/ \E d \in Deltas : Tick(d)
    \/ \E w \in widgets, p \in Positions : Move(w, p)

SpecTwo == InitTwo /\ [][NextTwo]_vars

(* ---------------------------------------------------------------- claims *)

IsEvent(e) == e.kind = "event"

Accepted(e) == e.kind = "event" /\ e.res = OK

\* The cached geometry: the tick lists and the three hand pivots.
Geometry(c) ==
    <<c.card_points, c.sub_card_points, c.hour.spindle, c.minute.spindle,
      c.second.spindle>>

\* The widget's centre as set_coords reads it.
Centre(o) == Pt(o.x + (width_def \div 2), o.y + (height_def \div 2))

CardinalAngles == <<0, 90, 180, 270>>

SubCardinalAngles == <<30, 60, 120, 150, 210, 240, 300, 330>>

\* The tick lists around centre p, one segment per listed angle, in order.
TicksAround(p, angles, rad, len) ==
    [k \in 1..Len(angles) |-> TickSegment(p.x, p.y, angles[k], rad, len)]

\* C1 as stated: the flag is false from construction on, every DRAW_MAIN
\* event leaves it true, every STYLE_CHANGED, VALUE_CHANGED, PRESSING,
\* RELEASED or LAYOUT_CHANGED event leaves it false, and nothing else changes
\* it, so it is true exactly when the last of these events was a DRAW_MAIN.
C1_FlagFollowsEveryEvent ==
    [][ LET e == ev'
            t == ev'.target
        IN  /\ e.kind = "construct" => ~obj'[t].valid
            /\ (IsEvent(e) /\ e.code = "DRAW_MAIN") => obj'[t].valid
            /\ (IsEvent(e) /\ e.code \in {"STYLE_CHANGED", "VALUE_CHANGED",
                    "PRESSING", "RELEASED", "LAYOUT_CHANGED"}) => ~obj'[t].valid
            /\ (IsEvent(e) /\ e.code \in {"DRAW_POST", "REFRESH", "SIZE_CHANGED"})
                    => obj'[t].valid = obj[t].valid
            /\ e.kind \in {"tick", "move"}
                    => \A w \in Objs : obj'[w].valid = obj[w].valid ]_vars

\* C1 amended: the same machine over the events the ancestor's handler
\* accepts (result OK): construction leaves the flag false, an accepted
\* DRAW_MAIN leaves it true, an accepted STYLE_CHANGED, VALUE_CHANGED,
\* PRESSING, RELEASED or LAYOUT_CHANGED leaves it false, and every other
\* step, an event the ancestor did not accept included, leaves it as it was.
C1_FlagFollowsAcceptedEvents ==
    [][ LET e == ev'
            t == ev'.target
        IN  /\ e.kind = "construct" => ~obj'[t].valid
            /\ (Accepted(e) /\ e.code = "DRAW_MAIN") => obj'[t].valid
            /\ (Accepted(e) /\ e.code \in {"STYLE_CHANGED", "VALUE_CHANGED",
                    "PRESSING", "RELEASED", "LAYOUT_CHANGED"}) => ~obj'[t].valid
            /\ (Accepted(e) /\ e.code \in {"DRAW_POST", "REFRESH", "SIZE_CHANGED"})
                    => obj'[t].valid = obj[t].valid
            /\ (IsEvent(e) /\ e.res # OK) => obj'[t].valid = obj[t].valid
            /\ \A w \in Objs : (w # t) => obj'[w].valid = obj[w].valid ]_vars

\* C1 witness: a widget that was drawn (Valid) and then invalidated by an
\* accepted LAYOUT_CHANGED event.
C1_Witness ==
    /\ Accepted(ev) /\ ev.code = "LAYOUT_CHANGED"
    /\ calcs[ev.target] = 0 /\ recomputes > 0
    /\ ~obj[ev.target].valid

\* C2 as stated: no step on one widget (its construction or any event of
\* it) changes the tick segments, hand pivots, time sample or accumulator
\* that another widget, whose geometry is valid, is drawn from.
C2_InstancesAreIndependent ==
    [][ \A a \in Objs :
            (ev'.kind \in {"construct", "event"} /\ ev'.target # a /\ obj[a].valid)
                => /\ Geometry(cls') = Geometry(cls)
                   /\ cls'.localtime = cls.localtime
                   /\ cls'.fractionaltime = cls.fractionaltime ]_vars

\* The label of a cardinal hour.
HourLabel(h) ==
    CASE h = 12 -> "12" [] h = 3 -> "3" [] h = 6 -> "6" [] h = 9 -> "9"

\* The outer end of the cardinal tick whose label (init_cardinal_labels,
\* zipped with card_points by set_coords) has the given text.
TickLabelled(c, text) ==
    LET k == CHOOSE i \in 1..Len(cardinals) : cardinals[i] = text
    IN  c.card_points[k][1]

\* t lies on the ray from p through q.
OnRay(p, q, t) ==
    /\ ((q.x - p.x) * (t.y - p.y)) - ((q.y - p.y) * (t.x - p.x)) = 0
    /\ ((q.x - p.x) * (t.x - p.x)) + ((q.y - p.y) * (t.y - p.y)) > 0

\* C3 as stated: after the hands are drawn at a cardinal hour h (12, 3, 6 or
\* 9) with minute 0, second 0 and no fraction, the hour hand's tip lies on
\* the ray from the pivot through the cardinal tick labelled h.
C3_HourHandPointsAtItsCardinal ==
    ( /\ Accepted(ev) /\ ev.code = "DRAW_POST"
      /\ recomputes > 0
      /\ cls.localtime[4] \in {12, 3, 6, 9}
      /\ cls.localtime[5] = 0 /\ cls.localtime[6] = 0
      /\ cls.fractionaltime = 0 )
    => /\ hr_rot(cls) = Deg((cls.localtime[4] * 30) % 360)
       /\ OnRay(cls.hour.spindle,
                TickLabelled(cls, HourLabel(cls.localtime[4])),
                cls.hour.main[2])

\* C4: every run of synchronise sets fractionaltime to 0 when the second it
\* reads differs from the second of the previous sample, and otherwise adds
\* the milliseconds that passed since the previous sample (the clock, not
\* the wrapped counter); lastsync becomes the tick value read.
C4_SynchroniseAccumulates ==
    [][ (IsEvent(ev') /\ ev'.nsync = 1)
            => /\ cls'.localtime = LocalTimeAt(rtc_base, clock)
               /\ cls'.fractionaltime =
                    IF cls'.localtime[6] # cls.localtime[6] THEN 0
                    ELSE cls.fractionaltime + (clock - sampled)
               /\ cls'.lastsync = TicksAt(clock) ]_vars

\* C4 witness: a sample in the same second as the previous one, taken after
\* the tick counter wrapped, that added the elapsed milliseconds.
C4_Witness ==
    /\ IsEvent(ev) /\ ev.nsync = 1
    /\ cls.fractionaltime = 600
    /\ cls.lastsync < 1000

\* C5 as stated: after every time sample fractionaltime lies between 0 and
\* 1000 ms, so the second hand's angle lies between the marks of the
\* current and of the next second.
C5_FractionStaysWithinTheSecond ==
    (IsEvent(ev) /\ ev.nsync > 0)
    => /\ cls.fractionaltime >= 0 /\ cls.fractionaltime <= 1000
       /\ sec_rot(cls) >= Deg(6 * cls.localtime[6])
       /\ sec_rot(cls) <= Deg((6 * cls.localtime[6]) + 6)

\* C6: once set_coords has run, however often, card_points holds exactly the
\* 4 segments at 0, 90, 180, 270 degrees and sub_card_points exactly the 8
\* segments at 30, 60, 120, 150, 210, 240, 300, 330 degrees, in that order,
\* around the centre the hands pivot on; no sub-cardinal angle is cardinal.
C6_TickListsAreFourAndEight ==
    recomputes > 0
    => /\ Len(cls.card_points) = 4
       /\ Len(cls.sub_card_points) = 8
       /\ cls.card_points =
            TicksAround(cls.hour.spindle, CardinalAngles, cardinal_rad, cardinal_len)
       /\ cls.sub_card_points =
            TicksAround(cls.hour.spindle, SubCardinalAngles, sub_card_rad, sub_card_len)
       /\ \A i \in 1..8, j \in 1..4 : SubCardinalAngles[i] # CardinalAngles[j]

\* C6 witness: a second recomputation, after the widget was moved.
C6_Witness ==
    /\ Accepted(ev) /\ ev.code = "DRAW_MAIN" /\ ev.ncalc = 1
    /\ recomputes = 2
    /\ cls.hour.spindle # Centre(NoObj)
    /\ Len(cls.card_points) = 4

\* The geometry set_coords computes for a widget at its present position.
GeometryAt(o) ==
    <<TicksAround(Centre(o), CardinalAngles, cardinal_rad, cardinal_len),
      TicksAround(Centre(o), SubCardinalAngles, sub_card_rad, sub_card_len),
      Centre(o), Centre(o), Centre(o)>>

C8_RecomputeOnlyWhenInvalid ==
    [][ LET e == ev'
            t == ev'.target
        IN  /\ (IsEvent(e) /\ e.code = "DRAW_MAIN" /\ obj[t].valid)
                    => (e.ncalc = 0 /\ Geometry(cls') = Geometry(cls))
            /\ e.ncalc > 0
                    => /\ Accepted(e) /\ e.code = "DRAW_MAIN"
                       /\ ~obj[t].valid
                       /\ e.ncalc = 1
            /\ \A w \in Objs : calcs'[w] <= 1 ]_vars

\* C8 witness: an accepted DRAW_MAIN of a valid widget that drew the face
\* without recomputing.
C8_Witness ==
    /\ Accepted(ev) /\ ev.code = "DRAW_MAIN"
    /\ ev.ncalc = 0 /\ ev.ndraw > 0
    /\ calcs[ev.target] = 1
    /\ Len(lines) > 0

\* C9: a handler reads the wall clock and the tick counter at most once;
\* only an accepted DRAW_POST reads them (never a DRAW_MAIN or any other
\* event), so a draw cycle DRAW_MAIN, DRAW_POST samples the time at most once.
C9_OneSamplePerDrawCycle ==
    /\ ev.nsync <= 1
    /\ ev.nsync = 1 => (Accepted(ev) /\ ev.code = "DRAW_POST" /\ ~in_sim)
    /\ (IsEvent(ev) /\ ev.code = "DRAW_MAIN") => ev.nsync = 0

\* C9 witness: a DRAW_POST that sampled the time, after a DRAW_MAIN had
\* computed the geometry.
C9_Witness ==
    /\ Accepted(ev) /\ ev.code = "DRAW_POST"
    /\ ev.nsync = 1
    /\ obj[ev.target].valid
    /\ sampled = clock /\ clock > 0

\* C10 as stated: whenever the hands are drawn the geometry is valid and
\* every hand pivots on the widget's present centre.
C10_HandsDrawnAroundTheCentre ==
    (Accepted(ev) /\ ev.code = "DRAW_POST")
    => /\ obj[ev.target].valid
       /\ cls.hour.spindle = Centre(obj[ev.target])
       /\ cls.minute.spindle = Centre(obj[ev.target])
       /\ cls.second.spindle = Centre(obj[ev.target])

\* C11 as stated: an accepted DRAW_MAIN event runs draw exactly once, and
\* each cached sub-cardinal segment is given to the renderer exactly once.
C11_DrawMainDrawsOnce ==
    (Accepted(ev) /\ ev.code = "DRAW_MAIN")
    => /\ ev.ndraw = 1
       /\ Len(lines) = Len(cls.sub_card_points)
       /\ \A k \in 1..Len(cls.sub_card_points) :
            Cardinality({i \in 1..Len(lines) :
                /\ lines[i].p1 = cls.sub_card_points[k][1]
                /\ lines[i].p2 = cls.sub_card_points[k][2]}) = 1

\* C12: an event for which the ancestor's handler returns a result other
\* than OK, whatever its code, leaves the widget (its validity flag and
\* position) and every FaceClass field (tick lists, hands, time sample,
\* accumulator, labels) as they were, runs neither draw, calc nor
\* synchronise, and draws no line.
C12_RejectedEventHasNoEffect ==
    [][ (IsEvent(ev') /\ ev'.res # OK)
            => /\ obj' = obj
               /\ cls' = cls
               /\ lines' = <<>>
               /\ ev'.ndraw = 0 /\ ev'.ncalc = 0 /\ ev'.nsync = 0
               /\ recomputes' = recomputes /\ sampled' = sampled ]_vars

\* C12 witness: a rejected DRAW_POST, at a time when an accepted one would
\* have sampled a new second, of a widget whose geometry is valid.
C12_Witness ==
    /\ IsEvent(ev) /\ ev.res = INV /\ ev.code = "DRAW_POST"
    /\ ~in_sim
    /\ obj[ev.target].valid
    /\ LocalTimeAt(rtc_base, clock)[6] # cls.localtime[6]
    /\ lines = <<>>

====
